---- MODULE Spec2Model ----
(***************************************************************************)
(* btc-trader: the buy path of the multi-asset bots (runBotCycleTCF2 and   *)
(* its TDFI twin) running as independent processes in LIVE mode against    *)
(* one shared Solana wallet, plus the dashboard route that edits a bot's   *)
(* enabledAssets.                                                          *)
(*                                                                         *)
(* Amounts are whole USDC.  Mark prices are held constant, so a leg bought *)
(* for n USDC is worth n USDC for the rest of the run.  Weights are kept   *)
(* as integer percentages and compared by cross-multiplication.            *)
(*                                                                         *)
(* canAssetTrade, LiveBroker.openPosition and LiveBroker.trimRunners live  *)
(* in the trading-bot-platform package.  They are modelled by what their   *)
(* call sites rely on: openPosition returns the new legs or null, and can  *)
(* only fill when the wallet holds the USDC it spends; whether it also     *)
(* refuses to dip into minUsdcReserve is not visible here, so it may       *)
(* return null in any state.                                               *)
(***************************************************************************)
EXTENDS Integers, Sequences, FiniteSets, TLC

\* ---------------------------------------------------------------- bounds
\* Cycles started by all bot processes together.
MaxCycles == 2

\* The bot processes (BOT_ID of tcf2.ts and of the TDFI bot).
Bots == {"tcf2", "tdfi"}

\* assets.json as loaded by getAllAssets, in file order.
AssetOrder == <<"wETH", "SOL">>

Registered == {AssetOrder[i] : i \in 1..Len(AssetOrder)}

\* Symbols that can be written into bots.json; DOGE is not in assets.json.
Symbols == Registered \cup {"DOGE"}

\* assets.json: per-asset tradeLegUsdc (USDC per leg; a position is 2 legs).
tradeLegUsdc == [a \in Registered |-> IF a = "wETH" THEN 250 ELSE 100]

\* Wallet contents the run may start from.
InitialUsdc == {50, 1800}

InitialWeth == {200}

\* bots.json files the run may start from (they can be edited by hand, so
\* they may name symbols that assets.json does not have).
InitialBotsJson ==
    { [b \in Bots |-> {"wETH", "SOL"}],
      [b \in Bots |-> IF b = "tcf2" THEN {"wETH", "DOGE"} ELSE {"wETH"}],
      [b \in Bots |-> IF b = "tcf2" THEN {"DOGE"} ELSE {"SOL"}] }

\* ------------------------------------------------------ program constants
minUsdcReserve == 50

maxPositionsPerAsset == 1

maxTotalPositions == 3

\* ALLOCATION-GUIDE section 4 and 5: static targets and the default band,
\* in percent.
TargetPct == [a \in Registered |-> IF a = "wETH" THEN 30 ELSE 20]

BandPct == 5

\* A position is a TP leg plus a RUNNER leg of tradeLegUsdc each.
PositionUsdc(a) == 2 * tradeLegUsdc[a]

NoLegs == [tp |-> FALSE, runner |-> FALSE]

NoDecision == [bot |-> "none", asset |-> "none", kind |-> "NONE",
               reason |-> "none", requestedUsdc |-> 0, approvedUsdc |-> 0,
               usdcBefore |-> 0, holdingBefore |-> 0, totalBefore |-> 0]

VARIABLES
    botsJson,      \* bots.json: enabledAssets per bot
    cachedBots,    \* per process: the bots.json entry it has cached, if any
    usdc,          \* wallet: idle USDC
    holding,       \* wallet: value of each token held
    pc,            \* per process: position in the cycle
    cycles,        \* per process: cycles started
    balances,      \* per process: balances.usdc read at cycle start
    assets,        \* per process: getAssetsBySymbols(enabledSymbols)
    longQ,         \* per process: LONG signals still to process
    shortQ,        \* per process: SHORT signals still to process
    legs,          \* per process: state.assetPositions (open TP / RUNNER)
    stateFile,     \* per bot: its STATE_FILE on disk
    decision,      \* the outcome of the last signal processed
    httpStatus,    \* status of the last PUT /api/bots/:botId/assets
    start,         \* the wallet as it was at Init
    daily,         \* the daily MFI bot: its mode, state and broker calls
    loop,          \* startContinuous4H: the clock and the loop's locals
    fetch          \* fetchCandlesWithRetry: attempts, waits and outcome

vars == <<botsJson, cachedBots, usdc, holding, pc, cycles, balances, assets,
          longQ, shortQ, legs, stateFile, decision, httpStatus, start,
          daily, loop, fetch>>

\* The processes modelled on their own: they share no state with the
\* multi-asset cycle.
NoDaily == [pc |-> "off"]

NoLoop == [pc |-> "off"]

NoFetch == [pc |-> "off"]

\* ------------------------------------------------------------- valuation
\* ALLOCATION-GUIDE section 3: totalValue = USDC + sum of token values.
RECURSIVE SumOver(_, _)
SumOver(f, S) ==
    IF S = {} THEN 0
    ELSE LET x == CHOOSE y \in S : TRUE IN f[x] + SumOver(f, S \ {x})

totalValue(u, h) == u + SumOver(h, Registered)

maxWeightPct(a) == TargetPct[a] + BandPct

\* currentWeight >= maxWeight, with currentWeight = holding / totalValue.
AtOrOverBand(a, hv, tv) == hv * 100 >= maxWeightPct(a) * tv

\* currentWeight > maxWeight.
OverBand(a, hv, tv) == hv * 100 > maxWeightPct(a) * tv

\* 100 * headroomUsdc, headroom = max(0, maxWeight * totalValue - holding).
headroom100(a, hv, tv) ==
    IF maxWeightPct(a) * tv - 100 * hv > 0
    THEN maxWeightPct(a) * tv - 100 * hv ELSE 0

availableCash(u) == u - minUsdcReserve

\* ------------------------------------------------------------ config/assets
\* A lookup that trusts the symbol list instead of filtering assets.json.
getAssetsBySymbols_Unfiltered(symbols) == symbols

\* getAssetsBySymbols: the registered assets whose symbol is in the list;
\* symbols that are not in assets.json drop out silently.
getAssetsBySymbols(symbols) == {a \in Registered : a \in symbols}

\* The filtered assets in assets.json order.
RECURSIVE InOrder(_, _)
InOrder(S, i) ==
    IF i > Len(AssetOrder) THEN <<>>
    ELSE (IF AssetOrder[i] \in S THEN <<AssetOrder[i]>> ELSE <<>>)
         \o InOrder(S, i + 1)

\* --------------------------------------------------------- platform calls
isOpen(l) == l.tp \/ l.runner

getTotalOpenPositions(st) == Cardinality({a \in Registered : isOpen(st[a])})

\* canAssetTrade(state, asset, managerConfig, timestamp)
canAssetTrade(st, a) ==
    /\ (IF isOpen(st[a]) THEN 1 ELSE 0) < maxPositionsPerAsset
    /\ getTotalOpenPositions(st) < maxTotalPositions

\* ------------------------------------------------------------ state file
NoStateFile == [exists |-> FALSE, assetPositions |-> << >>]

\* initializeMultiAssetState: every asset without open legs.
initializeMultiAssetState(as) == [a \in as |-> NoLegs]

\* hydrateMultiAssetState: a fresh state for the asset list, with the
\* positions of the assets the file knows taken from the file.
hydrateMultiAssetState(as, st) ==
    [a \in as |-> IF a \in DOMAIN st THEN st[a] ELSE NoLegs]

\* loadState: the hydrated file, or a fresh state when there is none.
loadState(file, as) ==
    IF file.exists THEN hydrateMultiAssetState(as, file.assetPositions)
    ELSE initializeMultiAssetState(as)

\* saveState and the shutdown handler: JSON.stringify of the state.
saveState(st) == [exists |-> TRUE, assetPositions |-> st]

\* ------------------------------------------------------------------ Init
Init ==
    /\ botsJson \in InitialBotsJson
    /\ cachedBots = [b \in Bots |-> [loaded |-> FALSE, enabledAssets |-> {}]]
    /\ usdc \in InitialUsdc
    /\ holding \in {[a \in Registered |-> IF a = "wETH" THEN w ELSE 0] :
                        w \in InitialWeth}
    /\ pc = [b \in Bots |-> "idle"]
    /\ cycles = [b \in Bots |-> 0]
    /\ balances = [b \in Bots |-> 0]
    /\ assets = [b \in Bots |-> {}]
    /\ longQ = [b \in Bots |-> <<>>]
    /\ shortQ = [b \in Bots |-> <<>>]
    /\ legs = [b \in Bots |-> initializeMultiAssetState(Registered)]
    /\ stateFile = [b \in Bots |-> NoStateFile]
    /\ decision = NoDecision
    /\ httpStatus = 0
    /\ start = [usdc |-> usdc, holding |-> holding]
    /\ daily = NoDaily
    /\ loop = NoLoop
    /\ fetch = NoFetch

\* --------------------------------------------------------------- actions
\* runBotCycleTCF2, up to the balance check: resolve the bot's assets, exit
\* when there are none, read the wallet and exit when it is below reserve.
StartCycle(b) ==
    /\ pc[b] = "idle"
    /\ SumOver(cycles, Bots) < MaxCycles
    /\ LET enabledSymbols == IF cachedBots[b].loaded
                             THEN cachedBots[b].enabledAssets
                             ELSE botsJson[b]
           as == getAssetsBySymbols(enabledSymbols)
       IN /\ cachedBots' = [cachedBots EXCEPT ![b] =
                            [loaded |-> TRUE, enabledAssets |-> enabledSymbols]]
          /\ assets' = [assets EXCEPT ![b] = as]
          /\ cycles' = [cycles EXCEPT ![b] = @ + 1]
          /\ IF as = {}
             THEN /\ pc' = [pc EXCEPT ![b] = "exitNoAssets"]
                  /\ UNCHANGED <<balances, legs>>
             ELSE /\ legs' = [legs EXCEPT ![b] =
                                loadState(stateFile[b], Registered)]
                  /\ balances' = [balances EXCEPT ![b] = usdc]
                  /\ pc' = [pc EXCEPT ![b] =
                              IF usdc < minUsdcReserve
                              THEN "exitInsufficientUsdc"
                              ELSE "process"]
    /\ UNCHANGED <<botsJson, usdc, holding, longQ, shortQ, stateFile,
                   decision, httpStatus, start>>
    /\ UNCHANGED <<daily, loop, fetch>>

\* The processAsset loop: per asset, updatePositions may close open legs
\* (recorded in state only), and the indicator yields LONG, SHORT or none.
ProcessAssets(b) ==
    /\ pc[b] = "process"
    /\ \E sig \in [assets[b] -> {"NONE", "LONG", "SHORT"}],
          closeTp \in SUBSET {a \in assets[b] : legs[b][a].tp},
          closeRunner \in SUBSET {a \in assets[b] : legs[b][a].runner} :
          /\ legs' = [legs EXCEPT ![b] =
                        [a \in Registered |->
                            [tp |-> legs[b][a].tp /\ a \notin closeTp,
                             runner |-> legs[b][a].runner
                                        /\ a \notin closeRunner]]]
          /\ longQ' = [longQ EXCEPT ![b] =
                        InOrder({a \in assets[b] : sig[a] = "LONG"}, 1)]
          /\ shortQ' = [shortQ EXCEPT ![b] =
                        InOrder({a \in assets[b] : sig[a] = "SHORT"}, 1)]
    /\ pc' = [pc EXCEPT ![b] = "long"]
    /\ UNCHANGED <<botsJson, cachedBots, usdc, holding, cycles, balances,
                   assets, stateFile, decision, httpStatus, start>>
    /\ UNCHANGED <<daily, loop, fetch>>

\* The records with the requested size written as the approved one.
Outcome_ApprovedIsRequested(b, a, kind, reason, approved) ==
    [bot |-> b, asset |-> a, kind |-> kind, reason |-> reason,
     requestedUsdc |-> PositionUsdc(a), approvedUsdc |-> PositionUsdc(a),
     usdcBefore |-> usdc, holdingBefore |-> holding[a],
     totalBefore |-> totalValue(usdc, holding)]

\* The records without journal.tradeFailed: a failed open leaves the last
\* record as it was.
Outcome_NoFailRecord(b, a, kind, reason, approved) ==
    IF kind = "FAILED" THEN decision
    ELSE [bot |-> b, asset |-> a, kind |-> kind, reason |-> reason,
          requestedUsdc |-> PositionUsdc(a), approvedUsdc |-> approved,
          usdcBefore |-> usdc, holdingBefore |-> holding[a],
          totalBefore |-> totalValue(usdc, holding)]

\* What the cycle writes about a signal it has decided: signalRejected with
\* the reason, the trade entry of an opened position, or tradeFailed.
Outcome(b, a, kind, reason, approved) ==
    [bot |-> b, asset |-> a, kind |-> kind, reason |-> reason,
     requestedUsdc |-> PositionUsdc(a), approvedUsdc |-> approved,
     usdcBefore |-> usdc, holdingBefore |-> holding[a],
     totalBefore |-> totalValue(usdc, holding)]

\* A broker that funds the buy by selling another holding.
openPosition_Rebalance(a, filled) ==
    IF filled
    THEN \E o \in Registered \ {a} :
         /\ holding[o] >= PositionUsdc(a)
         /\ holding' = [holding EXCEPT ![a] = @ + PositionUsdc(a),
                                       ![o] = @ - PositionUsdc(a)]
         /\ usdc' = usdc
    ELSE UNCHANGED <<usdc, holding>>

\* LiveBroker.openPosition: fills the two legs for 2 * tradeLegUsdc out of
\* the wallet, or returns null.
openPosition(a, filled) ==
    IF filled
    THEN /\ usdc >= PositionUsdc(a)
         /\ usdc' = usdc - PositionUsdc(a)
         /\ holding' = [holding EXCEPT ![a] = @ + PositionUsdc(a)]
    ELSE UNCHANGED <<usdc, holding>>

\* A loop that puts the signal it has just handled back at the end of the
\* list.
nextSignals_Requeue(q) == Append(Tail(q), Head(q))

\* for (const signal of longSignals): the signals left after this one.
nextSignals(q) == Tail(q)

\* One iteration of the LONG loop: the asset lookup (a signal for an asset
\* that is not in the list is skipped without a record), canAssetTrade
\* (signalRejected with its reason), then openPosition (trade entry logged,
\* or tradeFailed).
ProcessLong(b) ==
    /\ pc[b] = "long"
    /\ longQ[b] # <<>>
    /\ LET a == Head(longQ[b])
       IN /\ longQ' = [longQ EXCEPT ![b] = nextSignals(@)]
          /\ IF a \notin assets[b]
             THEN UNCHANGED <<usdc, holding, legs, decision>>
             ELSE IF ~canAssetTrade(legs[b], a)
             THEN /\ decision' = Outcome(b, a, "REJECTED", "canAssetTrade", 0)
                  /\ UNCHANGED <<usdc, holding, legs>>
             ELSE \E filled \in BOOLEAN :
                  /\ openPosition(a, filled)
                  /\ IF filled
                     THEN /\ legs' = [legs EXCEPT ![b][a] =
                                        [tp |-> TRUE, runner |-> TRUE]]
                          /\ decision' = Outcome(b, a, "OPENED", "none",
                                                 PositionUsdc(a))
                     ELSE /\ decision' = Outcome(b, a, "FAILED",
                                            "Failed to open position", 0)
                          /\ UNCHANGED legs
    /\ UNCHANGED <<botsJson, cachedBots, pc, cycles, balances, assets, shortQ,
                   stateFile, httpStatus, start>>
    /\ UNCHANGED <<daily, loop, fetch>>

\* The LONG loop is over; move on to the SHORT loop.
LongDone(b) ==
    /\ pc[b] = "long"
    /\ longQ[b] = <<>>
    /\ pc' = [pc EXCEPT ![b] = "short"]
    /\ UNCHANGED <<botsJson, cachedBots, usdc, holding, cycles, balances,
                   assets, longQ, shortQ, legs, stateFile, decision,
                   httpStatus, start>>
    /\ UNCHANGED <<daily, loop, fetch>>

\* One iteration of the SHORT loop: with an open runner, trimRunners sells
\* it back to USDC (or leaves it open).
ProcessShort(b) ==
    /\ pc[b] = "short"
    /\ shortQ[b] # <<>>
    /\ LET a == Head(shortQ[b])
       IN /\ shortQ' = [shortQ EXCEPT ![b] = Tail(@)]
          /\ IF legs[b][a].runner
             THEN \E trimmed \in BOOLEAN :
                  IF trimmed /\ holding[a] >= tradeLegUsdc[a]
                  THEN /\ legs' = [legs EXCEPT ![b][a].runner = FALSE]
                       /\ holding' = [holding EXCEPT ![a] =
                                        @ - tradeLegUsdc[a]]
                       /\ usdc' = usdc + tradeLegUsdc[a]
                  ELSE UNCHANGED <<legs, holding, usdc>>
             ELSE UNCHANGED <<legs, holding, usdc>>
    /\ UNCHANGED <<botsJson, cachedBots, pc, cycles, balances, assets, longQ,
                   stateFile, decision, httpStatus, start>>
    /\ UNCHANGED <<daily, loop, fetch>>

\* End of the cycle: saveState writes the state to STATE_FILE,
\* journal.cycleEnd; the continuous loop waits for the next candle.
FinishCycle(b) ==
    /\ pc[b] = "short"
    /\ shortQ[b] = <<>>
    /\ pc' = [pc EXCEPT ![b] = "idle"]
    /\ balances' = [balances EXCEPT ![b] = 0]
    /\ assets' = [assets EXCEPT ![b] = {}]
    /\ stateFile' = [stateFile EXCEPT ![b] = saveState(legs[b])]
    /\ UNCHANGED <<botsJson, cachedBots, usdc, holding, cycles, longQ, shortQ,
                   legs, decision, httpStatus, start>>
    /\ UNCHANGED <<daily, loop, fetch>>

\* PUT /api/bots/:botId/assets (authenticated, array body): every symbol
\* must exist in assets.json, else 400 "Unknown assets" and no change.
PutBotAssets(b, enabledAssets) ==
    /\ httpStatus = 0
    /\ LET invalidAssets == {s \in enabledAssets : s \notin Registered}
       IN IF invalidAssets # {}
          THEN /\ httpStatus' = 400
               /\ UNCHANGED botsJson
          ELSE /\ httpStatus' = 200
               /\ botsJson' = [botsJson EXCEPT ![b] = enabledAssets]
    /\ UNCHANGED <<cachedBots, usdc, holding, pc, cycles, balances, assets,
                   longQ, shortQ, legs, stateFile, decision, start>>
    /\ UNCHANGED <<daily, loop, fetch>>

Next ==
    \/ \E b \in Bots : StartCycle(b)
    \/ \E b \in Bots : ProcessAssets(b)
    \/ \E b \in Bots : ProcessLong(b)
    \/ \E b \in Bots : LongDone(b)
    \/ \E b \in Bots : ProcessShort(b)
    \/ \E b \in Bots : FinishCycle(b)
    \/ \E b \in Bots, s \in {{"wETH"}, {"SOL", "DOGE"}} : PutBotAssets(b, s)

Spec == Init /\ [][Next]_vars

\* ------------------------------------------------------ stop and restart
\* The bots that install SIGINT / SIGTERM handlers (setupShutdownHandlers);
\* the TDFI bot has none, so a signal ends it on the spot.
ShutdownHandlers == {"tcf2"}

\* What is left of a process that has exited: its locals and its bots.json
\* cache are gone (legs keeps the state it last held, to compare with what
\* the next start loads).
Exited(b) ==
    /\ pc' = [pc EXCEPT ![b] = "stopped"]
    /\ cachedBots' = [cachedBots EXCEPT ![b] =
                        [loaded |-> FALSE, enabledAssets |-> {}]]
    /\ balances' = [balances EXCEPT ![b] = 0]
    /\ assets' = [assets EXCEPT ![b] = {}]
    /\ longQ' = [longQ EXCEPT ![b] = <<>>]
    /\ shortQ' = [shortQ EXCEPT ![b] = <<>>]

\* The shutdown handler, where there is one: writes currentState, the state
\* object the cycle mutates in place (null until the first loadState).
shutdown(b) ==
    stateFile' = [stateFile EXCEPT ![b] =
                    IF b \in ShutdownHandlers /\ cycles[b] > 0
                    THEN saveState(legs[b]) ELSE @]

\* SIGINT or SIGTERM while the process sleeps between cycles or sits
\* between two steps of a cycle.
Shutdown(b) ==
    /\ pc[b] \in {"idle", "process", "long", "short"}
    /\ shutdown(b)
    /\ Exited(b)
    /\ UNCHANGED <<botsJson, usdc, holding, cycles, legs, decision,
                   httpStatus, start>>
    /\ UNCHANGED <<daily, loop, fetch>>

\* SIGINT or SIGTERM while the cycle awaits broker.openPosition and the
\* order has gone through: currentState does not hold the new legs yet;
\* what the log has of this signal is the "Opening two-leg position" lines
\* written before the call.
ShutdownDuringOpen(b) ==
    /\ pc[b] = "long"
    /\ longQ[b] # <<>>
    /\ LET a == Head(longQ[b])
       IN /\ a \in assets[b]
          /\ canAssetTrade(legs[b], a)
          /\ openPosition(a, TRUE)
          /\ decision' = Outcome(b, a, "OPENING", "none", PositionUsdc(a))
    /\ shutdown(b)
    /\ Exited(b)
    /\ UNCHANGED <<botsJson, cycles, legs, httpStatus, start>>
    /\ UNCHANGED <<daily, loop, fetch>>

\* The bot is started again: main() runs setupShutdownHandlers and the next
\* cycle begins with loadState.
Restart(b) ==
    /\ pc[b] = "stopped"
    /\ pc' = [pc EXCEPT ![b] = "idle"]
    /\ UNCHANGED <<botsJson, cachedBots, usdc, holding, cycles, balances,
                   assets, longQ, shortQ, legs, stateFile, decision,
                   httpStatus, start>>
    /\ UNCHANGED <<daily, loop, fetch>>

NextRestart ==
    \/ Next
    \/ \E b \in Bots : Shutdown(b)
    \/ \E b \in Bots : ShutdownDuringOpen(b)
    \/ \E b \in Bots : Restart(b)

SpecRestart == Init /\ [][NextRestart]_vars

\* ------------------------------------------------------- the other bots
mainVars == <<botsJson, cachedBots, usdc, holding, pc, cycles, balances,
              assets, longQ, shortQ, legs, stateFile, decision, httpStatus,
              start>>

\* The multi-asset bots are not running.
MainOff ==
    /\ botsJson = [b \in Bots |-> {"wETH", "SOL"}]
    /\ cachedBots = [b \in Bots |-> [loaded |-> FALSE, enabledAssets |-> {}]]
    /\ usdc = 1800
    /\ holding = [a \in Registered |-> 0]
    /\ pc = [b \in Bots |-> "idle"]
    /\ cycles = [b \in Bots |-> 0]
    /\ balances = [b \in Bots |-> 0]
    /\ assets = [b \in Bots |-> {}]
    /\ longQ = [b \in Bots |-> <<>>]
    /\ shortQ = [b \in Bots |-> <<>>]
    /\ legs = [b \in Bots |-> initializeMultiAssetState(Registered)]
    /\ stateFile = [b \in Bots |-> NoStateFile]
    /\ decision = NoDecision
    /\ httpStatus = 0
    /\ start = [usdc |-> usdc, holding |-> holding]

\* ------------------------------------------------- the daily MFI bot
\* The order-placing calls of the broker interface.
OrderCalls == {"openPosition", "closeLeg", "trimRunners"}

\* loadMFIDailyConfig: PAPER_MODE and LIVE_TRADING_ENABLED; the two may not
\* both be true.
loadMFIDailyConfig ==
    {c \in [paperMode : BOOLEAN, liveTradingEnabled : BOOLEAN] :
        ~(c.liveTradingEnabled /\ c.paperMode)}

\* A call made on the broker: it reaches the chain when the broker is the
\* LiveBroker, that is when paperMode is off.
brokerCall(d, name) ==
    IF d.config.paperMode THEN d.liveCalls ELSE d.liveCalls \cup {name}

\* The bot is started on a state file left by earlier runs, which may hold
\* open legs.
InitDaily ==
    /\ MainOff
    /\ loop = NoLoop
    /\ fetch = NoFetch
    /\ daily \in [pc : {"process"}, config : loadMFIDailyConfig,
                  openLegs : [tp : BOOLEAN, runner : BOOLEAN],
                  signal : {"NONE"}, liveCalls : {{}}, runs : {1}]

\* processAsset: updatePositions may close open legs, and each leg it
\* closes is handed to broker.closeLeg; then the indicator yields a signal.
DailyProcessAsset ==
    /\ daily.pc = "process"
    /\ \E closeTp \in {FALSE, daily.openLegs.tp},
          closeRunner \in {FALSE, daily.openLegs.runner},
          sig \in {"NONE", "LONG", "SHORT"} :
          daily' = [daily EXCEPT
                      !.pc = "long",
                      !.openLegs = [tp |-> @.tp /\ ~closeTp,
                                    runner |-> @.runner /\ ~closeRunner],
                      !.signal = sig,
                      !.liveCalls = IF closeTp \/ closeRunner
                                    THEN brokerCall(daily, "closeLeg")
                                    ELSE @]
    /\ UNCHANGED <<mainVars, loop, fetch>>

\* The LONG loop of runBotCycle: canAssetTrade, then the trading-disabled
\* skip, then broker.openPosition.
DailyLong ==
    /\ daily.pc = "long"
    /\ IF daily.signal # "LONG" \/ isOpen(daily.openLegs)
       THEN daily' = [daily EXCEPT !.pc = "short"]
       ELSE IF ~daily.config.liveTradingEnabled /\ ~daily.config.paperMode
       THEN daily' = [daily EXCEPT !.pc = "short"]
       ELSE \E filled \in BOOLEAN :
            daily' = [daily EXCEPT
                        !.pc = "short",
                        !.openLegs = IF filled
                                     THEN [tp |-> TRUE, runner |-> TRUE]
                                     ELSE @,
                        !.liveCalls = brokerCall(daily, "openPosition")]
    /\ UNCHANGED <<mainVars, loop, fetch>>

\* The SHORT loop of runBotCycle: with an open runner, broker.trimRunners.
DailyShort ==
    /\ daily.pc = "short"
    /\ IF daily.signal = "SHORT" /\ daily.openLegs.runner
       THEN \E trimmed \in BOOLEAN :
            daily' = [daily EXCEPT
                        !.pc = "save",
                        !.openLegs.runner = ~trimmed,
                        !.liveCalls = brokerCall(daily, "trimRunners")]
       ELSE daily' = [daily EXCEPT !.pc = "save"]
    /\ UNCHANGED <<mainVars, loop, fetch>>

\* saveState and the end of the cycle; the next daily run starts
\* from the saved state.
DailyFinish ==
    /\ daily.pc = "save"
    /\ daily.runs < MaxCycles
    /\ daily' = [daily EXCEPT !.pc = "process", !.signal = "NONE",
                              !.runs = @ + 1]
    /\ UNCHANGED <<mainVars, loop, fetch>>

NextDaily ==
    \/ DailyProcessAsset
    \/ DailyLong
    \/ DailyShort
    \/ DailyFinish

SpecDaily == InitDaily /\ [][NextDaily]_vars

\* ------------------------------------------------- the continuous loop
\* Time is in minutes since the epoch, which is a UTC midnight.
Hour == 60

Day == 24 * Hour

\* Days of wall-clock time a run of the loop is followed for.
MaxDays == 2

Horizon == MaxDays * Day + 4 * Hour

\* BOT_TIMEFRAME values, and the instants (every 5 minutes of one day) at
\* which the loop may be started.
BotTimeframes == {"1h", "4h", "1d", "d1"}

StartTimes == {Day + 5 * k : k \in 0..(Day \div 5 - 1)}

\* EXECUTION_OFFSET_MINUTES and CHECK_INTERVAL_MINUTES (defaults).
executionOffsetMinutes == 15

checkIntervalMinutes == 15

\* How long runBotCycle may take, and by how much a sleep may overrun.
CycleMinutes == {5, 70}

SleepOverrunMinutes == {0, 40}

\* TIMEFRAME: the lower-cased BOT_TIMEFRAME with d1 read as 1d.
TIMEFRAME(env) == IF env = "d1" THEN "1d" ELSE env

fourHourBoundaries == <<0, 4, 8, 12, 16, 20>>

\* The 4H scan: from the last boundary down, the first one that is not
\* after the current hour.
RECURSIVE lastBoundary(_, _)
lastBoundary(currentHour, i) ==
    IF i < 1 THEN 0
    ELSE IF currentHour >= fourHourBoundaries[i] THEN fourHourBoundaries[i]
    ELSE lastBoundary(currentHour, i - 1)

\* The close time with setUTCHours(h) in place of setUTCHours(h, 0, 0, 0):
\* the minutes of now are kept.
getLastCandleCloseTime_KeepMinutes(tf, now) ==
    LET midnight == now - (now % Day)
        currentHour == (now % Day) \div Hour
    IN IF tf = "1h" THEN now - (now % Hour)
       ELSE IF tf = "1d" THEN midnight + (now % Hour)
       ELSE midnight
            + lastBoundary(currentHour, Len(fourHourBoundaries)) * Hour
            + (now % Hour)

\* getLastCandleCloseTime: setUTCMinutes(0,0,0) for 1h, setUTCHours(0,0,0,0)
\* for 1d, setUTCHours(lastBoundary,0,0,0) otherwise.
getLastCandleCloseTime(tf, now) ==
    LET midnight == now - (now % Day)
        currentHour == (now % Day) \div Hour
    IN IF tf = "1h" THEN now - (now % Hour)
       ELSE IF tf = "1d" THEN midnight
       ELSE midnight
            + lastBoundary(currentHour, Len(fourHourBoundaries)) * Hour

timeframeMinutes(tf) ==
    IF tf = "1h" THEN Hour ELSE IF tf = "1d" THEN Day ELSE 4 * Hour

getNextCandleCloseTime(tf, now) ==
    getLastCandleCloseTime(tf, now) + timeframeMinutes(tf)

windowMinutes(tf) == IF tf = "1h" THEN 20 ELSE IF tf = "1d" THEN 60 ELSE 30

executionTime(tf, now) ==
    getLastCandleCloseTime(tf, now) + executionOffsetMinutes

windowEnd(tf, now) == executionTime(tf, now) + windowMinutes(tf)

\* The loop's test without the comparison with lastExecutedCandle.
shouldExecute_AnyCandle(tf, now, lastExecutedCandle) ==
    /\ now >= executionTime(tf, now)
    /\ now <= windowEnd(tf, now)

\* The loop's test: inside the execution window of a candle that has not
\* been executed.
shouldExecute(tf, now, lastExecutedCandle) ==
    /\ now >= executionTime(tf, now)
    /\ now <= windowEnd(tf, now)
    /\ getLastCandleCloseTime(tf, now) > lastExecutedCandle

InitLoop ==
    /\ MainOff
    /\ daily = NoDaily
    /\ fetch = NoFetch
    /\ loop \in [pc : {"check"}, env : BotTimeframes, now : StartTimes,
                 lastExecutedCandle : {0}, threw : {FALSE}]

\* The head of the while loop: inside the window of a new candle the close
\* time is recorded and the cycle starts; otherwise on to the sleep.
LoopCheck ==
    /\ loop.pc = "check"
    /\ IF shouldExecute(TIMEFRAME(loop.env), loop.now, loop.lastExecutedCandle)
       THEN loop' = [loop EXCEPT
                       !.pc = "cycle",
                       !.lastExecutedCandle =
                           getLastCandleCloseTime(TIMEFRAME(loop.env),
                                                  loop.now)]
       ELSE loop' = [loop EXCEPT !.pc = "sleep"]
    /\ UNCHANGED <<mainVars, daily, fetch>>

\* await runBotCycle() inside try / catch: the cycle takes its time and
\* may throw; the error is logged and the loop goes on.
LoopCycle ==
    /\ loop.pc = "cycle"
    /\ \E d \in CycleMinutes, threw \in BOOLEAN :
          loop' = [loop EXCEPT !.pc = "sleep", !.now = @ + d,
                              !.threw = threw]
    /\ UNCHANGED <<mainVars, daily, fetch>>

\* The tail of the loop: sleep for the check interval, or until the next
\* execution time if that is sooner.
LoopSleep ==
    /\ loop.pc = "sleep"
    /\ LET tf == TIMEFRAME(loop.env)
           nextExecution == getNextCandleCloseTime(tf, loop.now)
                                + executionOffsetMinutes
           msUntilNext == IF nextExecution - loop.now > 0
                          THEN nextExecution - loop.now ELSE 0
           checkInterval == IF checkIntervalMinutes < msUntilNext
                            THEN checkIntervalMinutes ELSE msUntilNext
       IN \E over \in SleepOverrunMinutes :
             /\ loop.now + checkInterval + over <= Horizon
             /\ loop' = [loop EXCEPT !.pc = "check",
                                     !.now = @ + checkInterval + over]
    /\ UNCHANGED <<mainVars, daily, fetch>>

NextLoop ==
    \/ LoopCheck
    \/ LoopCycle
    \/ LoopSleep

SpecLoop == InitLoop /\ [][NextLoop]_vars

\* -------------------------------------------------- fetchCandlesWithRetry
maxAttempts == 3

\* The candle counts asked for: 1 for the balance summary, and twice the
\* longer indicator period (14) for processAsset.
FetchLimits == {1, 28}

RECURSIVE Pow2(_)
Pow2(n) == IF n = 0 THEN 1 ELSE 2 * Pow2(n - 1)

\* A backoff that doubles from the attempt number, not from attempt - 1.
backoffMs_FromAttempt(attempt) == 1000 * Pow2(attempt)

\* backoffMs = 1000 * Math.pow(2, attempt - 1)
backoffMs(attempt) == 1000 * Pow2(attempt - 1)

\* A call of fetchCandlesWithRetry for some asset and limit, against a
\* fetcher whose successive calls fail or succeed as script says.
InitFetch ==
    /\ MainOff
    /\ daily = NoDaily
    /\ loop = NoLoop
    /\ fetch \in [pc : {"call"}, assetSymbol : Registered,
                  limit : FetchLimits,
                  script : [1..maxAttempts -> BOOLEAN],
                  attempt : {1}, calls : {0}, waits : {<<>>},
                  result : {"pending"}, candles : {0}]

\* One pass of the for loop up to the catch: fetcher.fetchCandles(limit)
\* returns the candles, or throws; the last failure is rethrown.
FetchCall ==
    /\ fetch.pc = "call"
    /\ fetch.attempt <= maxAttempts
    /\ IF fetch.script[fetch.attempt]
       THEN fetch' = [fetch EXCEPT !.calls = @ + 1, !.pc = "done",
                                  !.result = "returned",
                                  !.candles = fetch.limit]
       ELSE IF fetch.attempt = maxAttempts
       THEN fetch' = [fetch EXCEPT !.calls = @ + 1, !.pc = "done",
                                  !.result = "thrown"]
       ELSE fetch' = [fetch EXCEPT !.calls = @ + 1, !.pc = "backoff"]
    /\ UNCHANGED <<mainVars, daily, loop>>

\* The wait after a failed attempt that was not the last.
FetchBackoff ==
    /\ fetch.pc = "backoff"
    /\ fetch' = [fetch EXCEPT !.waits = Append(@, backoffMs(fetch.attempt)),
                              !.attempt = @ + 1, !.pc = "call"]
    /\ UNCHANGED <<mainVars, daily, loop>>

NextFetch ==
    \/ FetchCall
    \/ FetchBackoff

SpecFetch == InitFetch /\ [][NextFetch]_vars

\* ================================================================ claims
InCycle(b) == pc[b] \in {"process", "long", "short"}

Min3(x, y, z) ==
    IF x <= y /\ x <= z THEN x ELSE IF y <= z THEN y ELSE z

\* The smallest leg the configuration accepts (TRADE_LEG_USDC must be at
\* least 1): the rounding unit of an order.
minTradeLegUsdc == 1

\* C2: after a committed buy the bought asset's weight, (holding before +
\* approved) / totalValue, does not exceed maxWeight = target + band by more
\* than one minimum tradable unit.
C2_NoOverBandAfterCommit ==
    decision.kind = "OPENED" =>
        (decision.holdingBefore + decision.approvedUsdc) * 100
            <= maxWeightPct(decision.asset) * decision.totalBefore
               + 100 * minTradeLegUsdc

\* C3: at most one process at a time is between its wallet read and the end
\* of its commits (snapshot-read, gate-evaluate, commit); the total order of
\* decisions and the freshness of each snapshot rest on this exclusion.
C3_MutualExclusion == Cardinality({b \in Bots : InCycle(b)}) <= 1

\* Scenario 4: the asset has exactly 500 USDC of headroom and each of the
\* two bots requests 500 USDC of it.
ScenarioFour ==
    /\ start.usdc = 1800
    /\ start.holding["wETH"] = 200
    /\ headroom100("wETH", start.holding["wETH"],
                   totalValue(start.usdc, start.holding)) = 100 * 500
    /\ PositionUsdc("wETH") = 500

\* C5: in scenario 4 exactly one of the two requests is approved: the two
\* bots never both hold the position each asked for in its first cycle.
C5_ScenarioFourOneApproved ==
    ScenarioFour =>
        ~ \A b \in Bots : /\ cycles[b] = 1
                          /\ legs[b]["wETH"].tp
                          /\ legs[b]["wETH"].runner

\* C6: an allowed decision approves min(requestedUsdc, headroomUsdc,
\* availableCash), computed on the wallet the decision saw (all three
\* scaled by 100).
C6_SizerFormula ==
    decision.kind = "OPENED" =>
        100 * decision.approvedUsdc =
            Min3(100 * decision.requestedUsdc,
                 headroom100(decision.asset, decision.holdingBefore,
                             decision.totalBefore),
                 100 * availableCash(decision.usdcBefore))

\* C7: no buy is allowed for an asset whose currentWeight is at or above
\* maxWeight (strict band check).
C7_StrictBand ==
    decision.kind = "OPENED" =>
        ~AtOrOverBand(decision.asset, decision.holdingBefore,
                      decision.totalBefore)

\* C8: a signal decided while idle USDC minus the safety reserve is not
\* positive is a reserve block, whatever the asset's weight.
C8_ReserveBlocks ==
    (decision.kind # "NONE" /\ availableCash(decision.usdcBefore) <= 0) =>
        (decision.kind = "REJECTED" /\ decision.reason = "BLOCKED_RESERVE")

C10_DisabledAssetBlocked ==
    \A b \in Bots :
        (pc[b] = "process"
         /\ cachedBots[b].enabledAssets \ Registered # {}) =>
            /\ decision.bot = b
            /\ decision.kind = "REJECTED"
            /\ decision.reason = "BLOCKED_ASSET_DISABLED"

\* ALLOCATION-GUIDE section 9: a bot-level cap on deployed USDC
\* (BOT_MAX_DEPLOYED_USDC), here the price of one wETH position per bot.
botCap == [b \in Bots |-> [maxDeployedUsdc |-> PositionUsdc("wETH")]]

\* USDC a bot has in open legs: tradeLegUsdc per open TP or RUNNER leg.
botDeployedUsdc(b) ==
    SumOver([a \in Registered |->
                tradeLegUsdc[a] * ((IF legs[b][a].tp THEN 1 ELSE 0)
                                   + (IF legs[b][a].runner THEN 1 ELSE 0))],
            Registered)

\* C11: with a bot cap configured, a request that would take the bot's
\* deployed USDC over the cap is blocked, so botDeployedUsdc(botId) never
\* exceeds maxDeployedUsdc.
C11_BotCapRespected ==
    \A b \in Bots : botDeployedUsdc(b) <= botCap[b].maxDeployedUsdc

\* C12: no position is opened when min(requestedUsdc, headroomUsdc,
\* availableCash) is below the minimum tradable notional (at least the
\* smallest leg the configuration accepts); such a request is blocked.
C12_NoBuyBelowMinSize ==
    decision.kind = "OPENED" =>
        Min3(100 * decision.requestedUsdc,
             headroom100(decision.asset, decision.holdingBefore,
                         decision.totalBefore),
             100 * availableCash(decision.usdcBefore))
            >= 100 * minTradeLegUsdc

Range(q) == {q[i] : i \in 1..Len(q)}

C16_BlockedIsTerminal ==
    [][\A b \in Bots :
        ProcessLong(b) =>
            /\ longQ'[b] = Tail(longQ[b])
            /\ Head(longQ[b]) \notin Range(longQ'[b])
            /\ decision'.kind = "REJECTED" =>
                   UNCHANGED <<usdc, holding, legs>>]_vars

\* A bot has had a signal rejected and has moved on to the SHORT loop with
\* nothing bought for it.
C16_Witness ==
    /\ decision.kind = "REJECTED"
    /\ pc[decision.bot] = "short"
    /\ longQ[decision.bot] = <<>>

C18_RestartPreservesState ==
    \A b \in Bots :
        /\ pc[b] \in {"idle", "stopped"} =>
               loadState(stateFile[b], Registered) = legs[b]
        /\ (pc[b] = "process" /\ decision.bot = b
            /\ decision.kind = "OPENING") =>
               /\ legs[b][decision.asset].tp
               /\ legs[b][decision.asset].runner

\* C19: repeated signals stop at the allocation cap: once an asset's weight
\* has reached maxWeight no step adds to its holding.
C19_BuysStopAtCap ==
    [][\A a \in Registered :
        AtOrOverBand(a, holding[a], totalValue(usdc, holding)) =>
            holding'[a] <= holding[a]]_vars

\* ALLOCATION-GUIDE section 5: minWeight = max(0, target - band).
minWeightPct(a) ==
    IF TargetPct[a] - BandPct > 0 THEN TargetPct[a] - BandPct ELSE 0

\* minWeight <= currentWeight <= maxWeight.
WithinBand(a) ==
    /\ minWeightPct(a) * totalValue(usdc, holding) <= holding[a] * 100
    /\ holding[a] * 100 <= maxWeightPct(a) * totalValue(usdc, holding)

\* C20: weights remain within bands: an asset whose currentWeight is in
\* [minWeight, maxWeight] is still within that band after every step.
C20_WeightsRemainWithinBands ==
    [][\A a \in Registered : WithinBand(a) => WithinBand(a)']_vars

\* C21: the daily MFI bot in live mode with trading disabled analyzes only:
\* it makes no order-placing call (openPosition, closeLeg, trimRunners) on
\* the live broker.
C21_AnalyzeOnly ==
    (~daily.config.paperMode /\ ~daily.config.liveTradingEnabled) =>
        daily.liveCalls \cap OrderCalls = {}

\* C22: for every timeframe and instant, getLastCandleCloseTime is the
\* latest boundary of the timeframe that is <= now and
\* getNextCandleCloseTime is that boundary plus one timeframe duration, so
\* last <= now < next.
C22_CandleBoundaries ==
    loop.pc # "off" =>
        LET tf == TIMEFRAME(loop.env)
            duration == IF loop.env \in {"1d", "d1"} THEN Day
                        ELSE IF loop.env = "1h" THEN Hour ELSE 4 * Hour
            last == getLastCandleCloseTime(tf, loop.now)
            next == getNextCandleCloseTime(tf, loop.now)
        IN /\ last % duration = 0
           /\ last <= loop.now
           /\ loop.now < next
           /\ next = last + duration

\* The loop runs on the d1 alias and has executed the daily candle that
\* closed at the last midnight.
C22_Witness ==
    /\ loop.pc = "sleep"
    /\ loop.env = "d1"
    /\ loop.lastExecutedCandle = loop.now - (loop.now % Day)

\* C23: a candle the running loop first sees after its execution window has
\* passed is still executed, as a catch-up.
C23_CatchUp ==
    [][(/\ loop.pc = "check"
        /\ loop.lastExecutedCandle > 0
        /\ getLastCandleCloseTime(TIMEFRAME(loop.env), loop.now)
               > loop.lastExecutedCandle
        /\ loop.now > windowEnd(TIMEFRAME(loop.env), loop.now))
       => loop'.pc = "cycle"]_vars

\* C30: within one run of the loop a cycle starts at most once per candle
\* close: a cycle starts only for a close time strictly later than
\* lastExecutedCandle, which is set to it before the cycle runs and never
\* goes back; a cycle that throws is not re-run and the loop goes on.
C30_OncePerCandle ==
    [][loop.pc # "off" =>
        /\ loop'.lastExecutedCandle >= loop.lastExecutedCandle
        /\ loop'.pc = "cycle" =>
               /\ loop'.lastExecutedCandle > loop.lastExecutedCandle
               /\ loop'.lastExecutedCandle =
                      getLastCandleCloseTime(TIMEFRAME(loop.env), loop.now)
        /\ loop.pc = "cycle" =>
               /\ loop'.pc = "sleep"
               /\ loop'.lastExecutedCandle = loop.lastExecutedCandle]_vars

\* A cycle has thrown and the loop has gone on to execute a later candle.
C30_Witness ==
    /\ loop.pc = "cycle"
    /\ loop.threw
    /\ loop.lastExecutedCandle > 0

\* The attempts that fail before the first one that succeeds (all of them
\* if none does).
FailuresBeforeSuccess(script) ==
    Cardinality({i \in 1..maxAttempts :
                    \A j \in 1..i : ~script[j]})

C25_FlushOnSignal ==
    [][\A b \in Bots :
        (pc[b] # "stopped" /\ pc'[b] = "stopped" /\ cycles[b] > 0) =>
            loadState(stateFile'[b], Registered) = legs[b]]_vars

\* The first gate check that fails for bot b's request to buy asset a, in
\* the order asset registered and enabled, over band, reserve, bot cap.
FirstFailingReason(b, a) ==
    IF a \notin Registered \/ a \notin cachedBots[b].enabledAssets
    THEN "BLOCKED_ASSET_DISABLED"
    ELSE IF AtOrOverBand(a, holding[a], totalValue(usdc, holding))
    THEN "BLOCKED_OVER_BAND"
    ELSE IF availableCash(usdc) <= 0 THEN "BLOCKED_RESERVE"
    ELSE IF botDeployedUsdc(b) + PositionUsdc(a) > botCap[b].maxDeployedUsdc
    THEN "BLOCKED_BOT_CAP"
    ELSE "none"

\* C26: the gate checks run in the order asset, over band, reserve, bot
\* cap and stop at the first failure: a request for which some check fails
\* is blocked with the reason of the earliest failing check.
C26_FirstFailingReason ==
    [][\A b \in Bots :
        (ProcessLong(b)
         /\ FirstFailingReason(b, Head(longQ[b])) # "none") =>
            /\ decision'.kind = "REJECTED"
            /\ decision'.reason = FirstFailingReason(b, Head(longQ[b]))]_vars

\* C28: bot-cap accounting stays consistent with cash accounting: every
\* step that takes USDC out of idle cash adds the same amount to the
\* deployed capital of one bot.
C28_DeployedMatchesCash ==
    [][usdc' < usdc =>
        \E b \in Bots :
            botDeployedUsdc(b)' - botDeployedUsdc(b) = usdc - usdc']_vars

\* C29: a blocked decision approves nothing and commits nothing: the step
\* that rejects a signal leaves idle USDC, every holding, every bot's
\* deployed capital and every state file as they were.
C29_BlockedCommitsNothing ==
    [][\A b \in Bots :
        (ProcessLong(b) /\ decision'.kind = "REJECTED") =>
            /\ decision'.approvedUsdc = 0
            /\ usdc' = usdc
            /\ holding' = holding
            /\ \A o \in Bots : botDeployedUsdc(o)' = botDeployedUsdc(o)
            /\ stateFile' = stateFile]_vars

\* A bot that holds a position has had a further signal for it rejected.
C29_Witness ==
    /\ decision.kind = "REJECTED"
    /\ decision.approvedUsdc = 0
    /\ isOpen(legs[decision.bot][decision.asset])

====
